---- MODULE Spec2Model ----
(***************************************************************************)
(* Model of genlargeimage.py: a script that allocates a WIDTH x HEIGHT RGB  *)
(* canvas, paints one filled rectangle (and, when the font loads, a label) *)
(* per grid cell, prints progress, and saves the canvas as a JPEG.          *)
(*                                                                         *)
(* WIDTH, HEIGHT and GRID_SIZE are module-level names of the script; here  *)
(* they are variables fixed at Init, so that the loop can be explored on   *)
(* canvases small enough to hold pixel by pixel.  SpecColor instead takes  *)
(* the script's own values of the three and applies the colour derivation. *)
(***************************************************************************)
EXTENDS Integers, Sequences, FiniteSets, TLC

VARIABLES
    WIDTH, HEIGHT, GRID_SIZE,  \* the script's parameters (lines 8-10)
    fontFile,       \* environment: TRUE iff "Arial.ttf" can be loaded
    now,            \* environment: the wall clock, read at lines 23 and 82
    run,            \* which invocation of the script this is (1, 2, ...)
    pc,             \* position in the script
    start_time,     \* line 23
    img,            \* the canvas: pixel -> colour, or NoImage before line 28
    font,           \* line 38/40: "Arial" or None
    total_steps,    \* line 45
    current_step,   \* line 46/50
    x, y,           \* loop variables of lines 48-49
    color,          \* line 58
    ops,            \* the draw calls made on `draw`, in order
    console,        \* what this invocation has printed, in order: <<kind, value>>,
                    \* the value being the percentage (in tenths) of a progress
                    \* line and the elapsed time of the completion banner
    exitCode,       \* process exit status, or None while running
    file,           \* big_image.jpg on disk, or NoFile
    writes,         \* number of img.save calls of this invocation
    prevImg, prevOps \* canvas and draw calls of the previous invocation

vars == <<WIDTH, HEIGHT, GRID_SIZE, fontFile, now, run, pc, start_time, img,
          font, total_steps, current_step, x, y, color, ops, console,
          exitCode, file, writes, prevImg, prevOps>>

-----------------------------------------------------------------------------
\* Bounds of the model
MaxW == 5           \* small canvases: widths 1..MaxW
MaxH == 5           \* small canvases: heights 1..MaxH
MaxG == 3           \* small canvases: grid sizes 1..MaxG
LongW == 100        \* width of the canvases with enough cells to print progress
LabelGrid == 56     \* grid size of the canvases large enough to show labels
MaxTime == 1        \* the clock takes values 0..MaxTime
MaxRuns == 2        \* the script is invoked at most MaxRuns times
CharW == 1          \* ink width of one character of the label font
CharH == 1          \* ink height of the label font

\* Constants of the script
SRC_WIDTH == 35000
SRC_HEIGHT == 30000
SRC_GRID_SIZE == 1000
ColorMod == 255
GreenDiv == 100
ProgressEvery == 100
LabelMargin == 50
offset == 2
Quality == 60

None == "None"
NoImage == << >>                  \* no canvas
NoFile == [format |-> "absent"]   \* no such file on disk
NoColor == << >>                  \* `color` not yet assigned
White == <<255, 255, 255>>
Black == <<0, 0, 0>>

-----------------------------------------------------------------------------
\* Pure helpers

\* Image.new('RGB', (w, h), color='white'): im[px][py] is the colour of the
\* pixel in column px and row py.
NewImage(w, h) == [px \in 0..(w - 1) |-> [py \in 0..(h - 1) |-> White]]

\* Lines 55-58 with the green channel's "% 255" left out.
Color_GreenUnreduced(cx, cy) == <<cx % ColorMod, cy \div GreenDiv, (cx + cy) % ColorMod>>

\* Lines 55-58 with the red channel taken from the clock instead of x alone.
Color_Clock(cx, cy) ==
    <<(cx + start_time) % ColorMod, (cy \div GreenDiv) % ColorMod, (cx + cy) % ColorMod>>

\* Lines 55-58 with the colour taken from the step counter, not the position.
Color_ByStep(cx, cy) ==
    <<current_step % ColorMod, (cy \div GreenDiv) % ColorMod, (cx + cy) % ColorMod>>

\* Lines 55-58.
Color(cx, cy) == <<cx % ColorMod, (cy \div GreenDiv) % ColorMod, (cx + cy) % ColorMod>>

\* Line 45 without its parentheses: W // G + 1 * H // G + 1.
TotalSteps_NoParens(w, h, g) == (w \div g) + (h \div g) + 1

\* Line 45.
TotalSteps(w, h, g) == ((w \div g) + 1) * ((h \div g) + 1)

\* range(0, stop + 1, step): the stop value itself is still visited.
HasNext_Inclusive(v, stop, step) == v + step <= stop

\* range(0, stop, step): whether the iteration goes on after value v.
HasNext(v, stop, step) == v + step < stop

\* Number of characters of str(n), n >= 0.
RECURSIVE Digits(_)
Digits(n) == IF n < 10 THEN 1 ELSE 1 + Digits(n \div 10)

\* Number of characters of f"{x},{y}" (line 69).
TextLen(cx, cy) == Digits(cx) + 1 + Digits(cy)

\* "{v:.1f}" of cs / ts * 100, as a number of tenths (round half to even).
Fmt1(cs, ts) ==
    LET n == 1000 * cs
        q == n \div ts
        r == n % ts
    IN  IF 2 * r > ts THEN q + 1
        ELSE IF 2 * r < ts THEN q
        ELSE IF q % 2 = 0 THEN q ELSE q + 1

\* draw.rectangle with the fill ignored: only the border is painted.
DrawRectangle_OutlineOnly(im, box, fill, outline) ==
    [px \in DOMAIN im |->
        IF box[1] <= px /\ px <= box[3]
        THEN [py \in DOMAIN im[px] |->
                IF box[2] <= py /\ py <= box[4]
                   /\ (px \in {box[1], box[3]} \/ py \in {box[2], box[4]})
                THEN outline ELSE im[px][py]]
        ELSE im[px]]

\* draw.rectangle([x0, y0, x1, y1], fill, outline): both corners are inside
\* the rectangle; the one-pixel border takes `outline`, the rest `fill`;
\* what falls outside the canvas is clipped.
DrawRectangle(im, box, fill, outline) ==
    [px \in DOMAIN im |->
        IF box[1] <= px /\ px <= box[3]
        THEN [py \in DOMAIN im[px] |->
                IF box[2] <= py /\ py <= box[4]
                THEN IF px \in {box[1], box[3]} \/ py \in {box[2], box[4]}
                     THEN outline ELSE fill
                ELSE im[px][py]]
        ELSE im[px]]

\* The ink of a text of n characters anchored at `at`: the box of its glyphs.
TextInk(at, n) ==
    (at[1]..(at[1] + n * CharW - 1)) \X (at[2]..(at[2] + CharH - 1))

\* draw.text(at, text, fill, font): the ink takes `fill`, clipped to the canvas.
DrawText(im, at, n, fill) ==
    [px \in DOMAIN im |->
        IF at[1] <= px /\ px < at[1] + n * CharW
        THEN [py \in DOMAIN im[px] |->
                IF at[2] <= py /\ py < at[2] + CharH THEN fill ELSE im[px][py]]
        ELSE im[px]]

\* Lines 61-65: the rectangle call of cell (cx, cy).
RectBox(cx, cy, g) == <<cx, cy, cx + g, cy + g>>

\* Lines 72-75: the three text calls of cell (cx, cy): anchor and fill.
LabelCalls(cx, cy) ==
    << [at |-> <<cx + LabelMargin + offset, cy + LabelMargin + offset>>, fill |-> White],
       [at |-> <<cx + LabelMargin - offset, cy + LabelMargin - offset>>, fill |-> White],
       [at |-> <<cx + LabelMargin, cy + LabelMargin>>, fill |-> Black] >>

\* Lines 61-75 with the "if font:" test dropped: the label is always drawn.
CellOps_AlwaysLabel(cx, cy, g, f) ==
    << [op |-> "rectangle", box |-> RectBox(cx, cy, g), at |-> <<cx, cy>>,
        n |-> 0, fill |-> Color(cx, cy), outline |-> Color(cx, cy)] >>
    \o [i \in 1..3 |->
            [op |-> "text", box |-> <<0, 0, 0, 0>>, at |-> LabelCalls(cx, cy)[i].at,
             n |-> TextLen(cx, cy), fill |-> LabelCalls(cx, cy)[i].fill,
             outline |-> None]]

\* Lines 61-75: the draw calls of one loop iteration, in order.
CellOps(cx, cy, g, f) ==
    << [op |-> "rectangle", box |-> RectBox(cx, cy, g), at |-> <<cx, cy>>,
        n |-> 0, fill |-> Color(cx, cy), outline |-> Color(cx, cy)] >>
    \o (IF f # None
        THEN [i \in 1..3 |->
                [op |-> "text", box |-> <<0, 0, 0, 0>>, at |-> LabelCalls(cx, cy)[i].at,
                 n |-> TextLen(cx, cy), fill |-> LabelCalls(cx, cy)[i].fill,
                 outline |-> None]]
        ELSE << >>)

\* The effect of one draw call on the canvas.
ApplyOp(im, o) ==
    IF o.op = "rectangle" THEN DrawRectangle(im, o.box, o.fill, o.outline)
    ELSE DrawText(im, o.at, o.n, o.fill)

\* The effect of a sequence of draw calls on the canvas.
RECURSIVE ApplyOps(_, _)
ApplyOps(im, s) ==
    IF s = << >> THEN im ELSE ApplyOps(ApplyOp(im, Head(s)), Tail(s))

-----------------------------------------------------------------------------
\* Initial states

SmallConfigs == (1..MaxW) \X (1..MaxH) \X (1..MaxG)
LongConfigs == {<<LongW, 1, 1>>, <<2 * LongW + 1, 1, 2>>, <<LongW + 1, 3, 2>>}
LabelConfigs ==
    ({LabelGrid, 2 * LabelGrid} \X {LabelGrid, 2 * LabelGrid} \X {LabelGrid})
        \cup {<<LabelGrid, LabelGrid, LabelGrid \div 2>>}
Configs == SmallConfigs \cup LongConfigs \cup LabelConfigs

\* Per-invocation state before line 16 runs.
Fresh ==
    /\ pc = "start"
    /\ start_time = 0
    /\ img = NoImage
    /\ font = None
    /\ total_steps = 0
    /\ current_step = 0
    /\ x = 0
    /\ y = 0
    /\ color = NoColor
    /\ ops = << >>
    /\ console = << >>
    /\ exitCode = None
    /\ writes = 0

Init ==
    /\ \E c \in Configs : WIDTH = c[1] /\ HEIGHT = c[2] /\ GRID_SIZE = c[3]
    /\ fontFile \in BOOLEAN
    /\ now = 0
    /\ run = 1
    /\ file = NoFile
    /\ prevImg = NoImage
    /\ prevOps = << >>
    /\ Fresh

-----------------------------------------------------------------------------
\* Actions

\* Lines 16-23: banner, sleep, start_time = time.time().
Start ==
    /\ pc = "start"
    /\ \E t \in now..MaxTime :
        /\ now' = t
        /\ start_time' = t
    /\ console' = Append(console, <<"banner", 0>>)
    /\ pc' = "alloc"
    /\ UNCHANGED <<WIDTH, HEIGHT, GRID_SIZE, fontFile, run, img, font, total_steps,
                   current_step, x, y, color, ops, exitCode, file, writes,
                   prevImg, prevOps>>

\* Lines 26-28 and 33: the canvas is allocated.
AllocOk ==
    /\ pc = "alloc"
    /\ img' = NewImage(WIDTH, HEIGHT)
    /\ console' = Append(console, <<"alloc", 0>>)
    /\ pc' = "font"
    /\ UNCHANGED <<WIDTH, HEIGHT, GRID_SIZE, fontFile, now, run, start_time, font,
                   total_steps, current_step, x, y, color, ops, exitCode, file,
                   writes, prevImg, prevOps>>

\* Lines 26-31 without sys.exit(1): the message is printed and the script
\* goes on to line 33.
AllocFail_NoExit ==
    /\ pc = "alloc"
    /\ console' = console \o << <<"alloc", 0>>, <<"memerror", 0>> >>
    /\ pc' = "font"
    /\ img' = NewImage(WIDTH, HEIGHT)
    /\ UNCHANGED <<WIDTH, HEIGHT, GRID_SIZE, fontFile, now, run, start_time,
                   font, total_steps, current_step, x, y, color, ops, file,
                   writes, prevImg, prevOps, exitCode>>

\* Lines 26-31: Image.new raises MemoryError.
AllocFail ==
    /\ pc = "alloc"
    /\ console' = console \o << <<"alloc", 0>>, <<"memerror", 0>> >>
    /\ exitCode' = 1
    /\ pc' = "exited"
    /\ UNCHANGED <<WIDTH, HEIGHT, GRID_SIZE, fontFile, now, run, start_time, img,
                   font, total_steps, current_step, x, y, color, ops, file,
                   writes, prevImg, prevOps>>

\* Lines 36-46: font, the "drawing" message, total_steps, current_step, and
\* the first values of the two loop variables.
LoadFont ==
    /\ pc = "font"
    /\ font' = IF fontFile THEN "Arial" ELSE None
    /\ console' = Append(console, <<"drawing", 0>>)
    /\ total_steps' = TotalSteps(WIDTH, HEIGHT, GRID_SIZE)
    /\ current_step' = 0
    /\ x' = 0
    /\ y' = 0
    /\ pc' = "loop"
    /\ UNCHANGED <<WIDTH, HEIGHT, GRID_SIZE, fontFile, now, run, start_time, img,
                   color, ops, exitCode, file, writes, prevImg, prevOps>>

\* Lines 48-80 with img.save indented into the loop body.
DrawCell_SaveInLoop ==
    /\ pc = "loop"
    /\ current_step' = current_step + 1
    /\ console' = IF (current_step + 1) % ProgressEvery = 0
                  THEN Append(console, <<"progress", Fmt1(current_step + 1, total_steps)>>)
                  ELSE console
    /\ color' = Color(x, y)
    /\ ops' = ops \o CellOps(x, y, GRID_SIZE, font)
    /\ img' = ApplyOps(img, CellOps(x, y, GRID_SIZE, font))
    /\ file' = [format |-> "JPEG", quality |-> Quality,
                size |-> <<WIDTH, HEIGHT>>, raster |-> img']
    /\ writes' = writes + 1
    /\ IF HasNext(y, HEIGHT, GRID_SIZE)
       THEN x' = x /\ y' = y + GRID_SIZE /\ pc' = "loop"
       ELSE IF HasNext(x, WIDTH, GRID_SIZE)
            THEN x' = x + GRID_SIZE /\ y' = 0 /\ pc' = "loop"
            ELSE x' = x /\ y' = y /\ pc' = "finish"
    /\ UNCHANGED <<WIDTH, HEIGHT, GRID_SIZE, fontFile, now, run, start_time, font,
                   total_steps, exitCode, prevImg, prevOps>>

\* Lines 48-75: one iteration of the inner loop body at (x, y), then the
\* step of the two for-loops.
DrawCell ==
    /\ pc = "loop"
    /\ current_step' = current_step + 1
    /\ console' = IF (current_step + 1) % ProgressEvery = 0
                  THEN Append(console, <<"progress", Fmt1(current_step + 1, total_steps)>>)
                  ELSE console
    /\ color' = Color(x, y)
    /\ ops' = ops \o CellOps(x, y, GRID_SIZE, font)
    /\ img' = ApplyOps(img, CellOps(x, y, GRID_SIZE, font))
    /\ IF HasNext(y, HEIGHT, GRID_SIZE)
       THEN x' = x /\ y' = y + GRID_SIZE /\ pc' = "loop"
       ELSE IF HasNext(x, WIDTH, GRID_SIZE)
            THEN x' = x + GRID_SIZE /\ y' = 0 /\ pc' = "loop"
            ELSE x' = x /\ y' = y /\ pc' = "save"
    /\ UNCHANGED <<WIDTH, HEIGHT, GRID_SIZE, fontFile, now, run, start_time, font,
                   total_steps, exitCode, file, writes, prevImg, prevOps>>

\* Lines 77-80: the "saving" message and img.save(FILENAME, quality=60).
Save ==
    /\ pc = "save"
    /\ console' = Append(console, <<"saving", 0>>)
    /\ file' = [format |-> "JPEG", quality |-> Quality,
                size |-> <<WIDTH, HEIGHT>>, raster |-> img]
    /\ writes' = writes + 1
    /\ pc' = "finish"
    /\ UNCHANGED <<WIDTH, HEIGHT, GRID_SIZE, fontFile, now, run, start_time, img,
                   font, total_steps, current_step, x, y, color, ops, exitCode,
                   prevImg, prevOps>>

\* Lines 82-87: end_time, the completion banner, normal exit.
Finish ==
    /\ pc = "finish"
    /\ \E t \in now..MaxTime :
        /\ now' = t
        /\ console' = Append(console, <<"done", t - start_time>>)
    /\ exitCode' = 0
    /\ pc' = "done"
    /\ UNCHANGED <<WIDTH, HEIGHT, GRID_SIZE, fontFile, run, start_time, img, font,
                   total_steps, current_step, x, y, color, ops, file, writes,
                   prevImg, prevOps>>

\* The script is invoked again with the same constants and the same font
\* file; big_image.jpg stays on disk, everything else starts afresh.
Rerun ==
    /\ pc \in {"done", "exited"}
    /\ run < MaxRuns
    /\ run' = run + 1
    /\ prevImg' = img
    /\ prevOps' = ops
    /\ pc' = "start"
    /\ start_time' = 0
    /\ img' = NoImage
    /\ font' = None
    /\ total_steps' = 0
    /\ current_step' = 0
    /\ x' = 0
    /\ y' = 0
    /\ color' = NoColor
    /\ ops' = << >>
    /\ console' = << >>
    /\ exitCode' = None
    /\ writes' = 0
    /\ UNCHANGED <<WIDTH, HEIGHT, GRID_SIZE, fontFile, now, file>>

Next ==
    \/ Start
    \/ AllocOk
    \/ AllocFail
    \/ LoadFont
    \/ DrawCell
    \/ Save
    \/ Finish
    \/ Rerun

Spec == Init /\ [][Next]_vars

-----------------------------------------------------------------------------
\* The colour derivation on the script's own constants

\* The values range(0, stop, step) yields.
RangeSet(stop, step) == {v \in 0..(stop - 1) : v % step = 0}

InitColor ==
    /\ WIDTH = SRC_WIDTH
    /\ HEIGHT = SRC_HEIGHT
    /\ GRID_SIZE = SRC_GRID_SIZE
    /\ fontFile = FALSE
    /\ now = 0
    /\ run = 1
    /\ file = NoFile
    /\ prevImg = NoImage
    /\ prevOps = << >>
    /\ pc = "color"
    /\ start_time = 0
    /\ img = NoImage
    /\ font = None
    /\ total_steps = TotalSteps(SRC_WIDTH, SRC_HEIGHT, SRC_GRID_SIZE)
    /\ current_step = 0
    /\ x \in RangeSet(SRC_WIDTH, SRC_GRID_SIZE)
    /\ y \in RangeSet(SRC_HEIGHT, SRC_GRID_SIZE)
    /\ color = NoColor
    /\ ops = << >>
    /\ console = << >>
    /\ exitCode = None
    /\ writes = 0

\* Lines 55-58 at the loop's (x, y).
DeriveColor ==
    /\ pc = "color"
    /\ color' = Color(x, y)
    /\ pc' = "colored"
    /\ UNCHANGED <<WIDTH, HEIGHT, GRID_SIZE, fontFile, now, run, start_time, img,
                   font, total_steps, current_step, x, y, ops, console, exitCode,
                   file, writes, prevImg, prevOps>>

NextColor == DeriveColor

SpecColor == InitColor /\ [][NextColor]_vars

-----------------------------------------------------------------------------
\* Vocabulary of the properties

CeilDiv(a, b) == IF a % b = 0 THEN a \div b ELSE (a \div b) + 1

\* ceil(WIDTH / GRID_SIZE) * ceil(HEIGHT / GRID_SIZE)
NumCells == CeilDiv(WIDTH, GRID_SIZE) * CeilDiv(HEIGHT, GRID_SIZE)

\* The grid-aligned coordinate pairs inside the canvas.
GridCells == RangeSet(WIDTH, GRID_SIZE) \X RangeSet(HEIGHT, GRID_SIZE)

IsRect(o) == o.op = "rectangle"
IsText(o) == o.op = "text"
RectOps(s) == SelectSeq(s, IsRect)

\* The loop has ended in this invocation.
AfterLoop == pc \in {"save", "finish", "done"}

Printed(kind) == \E i \in DOMAIN console : console[i][1] = kind

\* The origin of the grid cell that contains pixel (px, py).
CellOf(px, py) == <<(px \div GRID_SIZE) * GRID_SIZE, (py \div GRID_SIZE) * GRID_SIZE>>

\* Pixel (px, py) lies in the ink of some label call of the draw log.
InLabel(px, py) ==
    \E i \in DOMAIN ops :
        /\ IsText(ops[i])
        /\ <<px, py>> \in TextInk(ops[i].at, ops[i].n)

Min(a, b) == IF a < b THEN a ELSE b
Max(a, b) == IF a > b THEN a ELSE b

\* The canvas pixels two rectangle calls both paint: <<xlo, xhi, ylo, yhi>>.
Common(a, b) ==
    << Max(Max(a.box[1], b.box[1]), 0), Min(Min(a.box[3], b.box[3]), WIDTH - 1),
       Max(Max(a.box[2], b.box[2]), 0), Min(Min(a.box[4], b.box[4]), HEIGHT - 1) >>

Overlap(a, b) == Common(a, b)[1] <= Common(a, b)[2] /\ Common(a, b)[3] <= Common(a, b)[4]

\* The rectangle calls of the same grid, drawn with y in the outer loop and
\* x in the inner one.
YOuterRects ==
    LET nx == CeilDiv(WIDTH, GRID_SIZE)
        ny == CeilDiv(HEIGHT, GRID_SIZE)
    IN  [k \in 1..(nx * ny) |->
            CellOps(((k - 1) % nx) * GRID_SIZE, ((k - 1) \div nx) * GRID_SIZE,
                    GRID_SIZE, None)[1]]

-----------------------------------------------------------------------------
\* C1: if canvas allocation fails with a memory error, the run prints a
\* diagnostic and ends with exit status 1; in that run no cell is drawn and
\* the output file is not written.
C1_AllocFailureExits ==
    Printed("memerror") =>
        /\ pc = "exited"
        /\ exitCode = 1
        /\ console[Len(console)] = <<"memerror", 0>>
        /\ img = NoImage
        /\ ops = << >>
        /\ current_step = 0
        /\ writes = 0
        /\ (run = 1 => file = NoFile)

\* A second invocation that failed to allocate while the file of the first
\* one is on disk.
C1_Witness == pc = "exited" /\ Printed("memerror") /\ file # NoFile

\* C2: the number of cells the nested loop draws (the final current_step)
\* is ceil(WIDTH / GRID_SIZE) * ceil(HEIGHT / GRID_SIZE), also when WIDTH or
\* HEIGHT is not a multiple of GRID_SIZE.
C2_CellCount ==
    AfterLoop =>
        /\ current_step = NumCells
        /\ Len(RectOps(ops)) = NumCells

\* The loop has ended on a canvas neither side of which is a multiple of the
\* grid size, after more than one cell in each direction.
C2_Witness ==
    /\ pc = "save"
    /\ WIDTH % GRID_SIZE # 0
    /\ HEIGHT % GRID_SIZE # 0
    /\ WIDTH > GRID_SIZE
    /\ HEIGHT > GRID_SIZE

\* C3: for every grid-aligned (x, y) the loop visits, each colour channel
\* r = x mod 255, g = (y div 100) mod 255, b = (x + y) mod 255 is in 0..254.
C3_ChannelsInRange ==
    pc = "colored" =>
        /\ color[1] \in 0..254
        /\ color[2] \in 0..254
        /\ color[3] \in 0..254

\* A colour was derived where y div 100 and x + y both exceed 254.
C3_Witness ==
    /\ pc = "colored"
    /\ y \div GreenDiv > 254
    /\ x > 254
    /\ color = Color(x, y)

\* C4: every 100th processed cell a progress message is printed whose
\* percentage is cells_processed / total_cells * 100, total_cells being the
\* number of grid cells the loop processes; it is 100 when the last cell has
\* been processed.
C4_ProgressOfTotalCells ==
    (pc \in {"loop", "save"} /\ current_step > 0 /\ current_step % ProgressEvery = 0)
        => console[Len(console)] = <<"progress", Fmt1(current_step, NumCells)>>

\* What the script prints instead: the percentage of total_steps (line 45).
ProgressOfTotalSteps ==
    (pc \in {"loop", "save"} /\ current_step > 0 /\ current_step % ProgressEvery = 0)
        => console[Len(console)] = <<"progress", Fmt1(current_step, total_steps)>>

\* C5: when allocation succeeds the file is written exactly once, only
\* after every grid cell has been drawn, the canvas is not changed after
\* the write, and the run goes allocate, draw, write, report.
C5_WriteOnceAfterDrawing ==
    /\ writes \in {0, 1}
    /\ pc \in {"start", "alloc", "font", "loop", "save", "exited"} => writes = 0
    /\ writes = 1 =>
        /\ pc \in {"finish", "done"}
        /\ {ops[i].at : i \in {j \in DOMAIN ops : IsRect(ops[j])}} = GridCells
        /\ file.raster = img
        /\ file.quality = Quality
        /\ file.size = <<WIDTH, HEIGHT>>
    /\ pc = "done" =>
        /\ writes = 1
        /\ exitCode = 0
        /\ console[1][1] = "banner"
        /\ console[2][1] = "alloc"
        /\ console[3][1] = "drawing"
        /\ \A i \in 4..(Len(console) - 2) : console[i][1] = "progress"
        /\ console[Len(console) - 1][1] = "saving"
        /\ console[Len(console)][1] = "done"

\* A second invocation has completed, overwriting the file, on a grid of
\* more than one cell.
C5_Witness == pc = "done" /\ run = 2 /\ writes = 1 /\ current_step > 1

C7_InteriorHasCellColor ==
    pc = "save" =>
        \A px \in DOMAIN img : \A py \in DOMAIN img[px] :
            (px % GRID_SIZE # 0 /\ py % GRID_SIZE # 0) =>
                \/ /\ img[px][py] = Color(CellOf(px, py)[1], CellOf(px, py)[2])
                   /\ img[px][py] # White
                \/ InLabel(px, py)

\* Two labelled cells side by side: an interior pixel of the second has
\* the second's colour, and the white stroke of the first's label is on
\* the canvas.
C7_Witness ==
    /\ pc = "done"
    /\ font # None
    /\ GRID_SIZE = LabelGrid
    /\ WIDTH = 2 * LabelGrid
    /\ img[LabelGrid + 1][1] = Color(LabelGrid, 0)
    /\ InLabel(LabelMargin - offset, LabelMargin - offset)
    /\ img[LabelMargin - offset][LabelMargin - offset] = White

\* C8 as stated: no canvas pixel is painted by the rectangles of two
\* different cells.
C8_NoOverlap ==
    \A i \in DOMAIN ops : \A j \in DOMAIN ops :
        (i < j /\ IsRect(ops[i]) /\ IsRect(ops[j])) => ~Overlap(ops[i], ops[j])

\* C8 amended: the rectangles of neighbouring cells do share pixels, on a
\* line one pixel wide, and the raster the rectangles leave when the loop
\* has ended is nevertheless the same with x in the outer loop (the script)
\* and with y in the outer loop.
C8_OrderIndependent ==
    pc = "save" =>
        /\ IF font = None
           THEN img = ApplyOps(NewImage(WIDTH, HEIGHT), YOuterRects)
           ELSE ApplyOps(NewImage(WIDTH, HEIGHT), RectOps(ops))
                  = ApplyOps(NewImage(WIDTH, HEIGHT), YOuterRects)
        /\ \A i \in DOMAIN ops : \A j \in DOMAIN ops :
            (i < j /\ IsRect(ops[i]) /\ IsRect(ops[j]) /\ Overlap(ops[i], ops[j])) =>
                \/ Common(ops[i], ops[j])[1] = Common(ops[i], ops[j])[2]
                \/ Common(ops[i], ops[j])[3] = Common(ops[i], ops[j])[4]

\* The loop has ended on a grid of at least 2 x 2 cells, the first two
\* rectangles of which share pixels.
C8_Witness ==
    /\ pc = "save"
    /\ WIDTH > GRID_SIZE
    /\ HEIGHT > GRID_SIZE
    /\ GRID_SIZE > 1
    /\ Overlap(RectOps(ops)[1], RectOps(ops)[2])

\* C9: two runs with the same constants and the same font availability make
\* the same sequence of draw calls and end with the same canvas, whatever
\* the clock says.
C9_Deterministic ==
    (run > 1 /\ prevImg # NoImage /\ img # NoImage) =>
        /\ Len(ops) <= Len(prevOps)
        /\ ops = SubSeq(prevOps, 1, Len(ops))
        /\ AfterLoop => ops = prevOps /\ img = prevImg

\* A second labelled run, started at a later clock value than the first,
\* has completed.
C9_Witness ==
    /\ run = 2
    /\ pc = "done"
    /\ prevImg # NoImage
    /\ start_time > 0
    /\ font # None
    /\ current_step > 1

\* C10: current_step never exceeds total_steps, so no printed percentage is
\* above 100; and the loop ends after finitely many cells: while it runs
\* current_step is below total_steps and every step of the loop adds one.
C10_StepsBounded ==
    /\ [](/\ current_step <= total_steps
          /\ \A i \in DOMAIN console :
                console[i][1] = "progress" => console[i][2] <= 1000
          /\ pc = "loop" => current_step < total_steps)
    /\ [][pc = "loop" =>
            /\ current_step' = current_step + 1
            /\ pc' \in {"loop", "save"}]_vars

\* The loop has ended with current_step equal to total_steps after a
\* progress message was printed.
C10_Witness == pc = "save" /\ Printed("progress") /\ current_step = total_steps

====
